---- MODULE Spec2Model ----
(***************************************************************************)
(* The uptimerobot module (src/monitoring/uptimerobot.py): one invocation  *)
(* of main() reconciles one Uptime Robot monitor with the requested state. *)
(* The remote service is the set `remote` of monitor records; every remote *)
(* call of main() is one step, answered by the service either with a       *)
(* transport status other than 200 ("down"), with a well-formed payload    *)
(* whose stat is not "ok" ("reject"), or by serving the request ("serve"). *)
(***************************************************************************)
EXTENDS Integers, Sequences, FiniteSets, TLC

VARIABLES
    remote,          \* the service's monitors: records [id, name, url, status]
    params,          \* module.params of the running invocation
    pc,              \* position of the invocation in main()
    monitor_id,      \* local monitor_id of main(); 0 models None
    result,          \* local result of main(): the last decoded payload
    changed,         \* local changed of main()
    monitor_status,  \* local monitor_status of main()
    calls,           \* the remote calls issued so far, in order
    report,          \* what exit_json / fail_json handed to the caller
    pre,             \* the service's monitors when the invocation began
    prev             \* the finished invocation that the caller is repeating, if any

vars == <<remote, params, pc, monitor_id, result, changed, monitor_status,
          calls, report, pre, prev>>

-----------------------------------------------------------------------------
(* Bounds of the model.                                                    *)

MaxMonitors == 2

Procs == {"p1", "p2"}

Ids == 1 .. MaxMonitors

Names == {"a"}

Urls == {"u", "v"}

\* None / the empty string of an optional module parameter
NoStr == ""

\* runtime status codes of the service: paused, not checked yet, up
Statuses == {"0", "1", "2"}

States == {"started", "paused", "present", "absent"}

status_codes == [paused |-> "0", up |-> "2"]

API_ACTIONS == [status |-> "getMonitors", editMonitor |-> "editMonitor",
                newMonitor |-> "newMonitor", deleteMonitor |-> "deleteMonitor"]

Answers == {"down", "reject", "serve"}

-----------------------------------------------------------------------------
(* The service.                                                            *)

MonitorRecords == [id : Ids, name : Names, url : Urls, status : Statuses]

\* the monitor sets the service can hold: ids are unique
RemoteStates ==
    {S \in SUBSET MonitorRecords : \A m1, m2 \in S : m1.id = m2.id => m1 = m2}

RemoteIds(S) == {m.id : m \in S}

\* getMonitors with search=term: the monitors whose name or url is the term
SearchHits(S, term) == {m \in S : m.name = term \/ m.url = term}

\* getMonitors with monitors=id
IdHits(S, id) == {m \in S : m.id = id}

\* the 'monitor' list of a payload, in id order
RECURSIVE MonitorList(_)
MonitorList(S) ==
    IF S = {} THEN <<>>
    ELSE LET m == CHOOSE x \in S : \A y \in S : x.id <= y.id
         IN  <<m>> \o MonitorList(S \ {m})

\* result = None
NoResult == [stat |-> "none", has_monitors |-> FALSE, monitor |-> <<>>]

\* a well-formed payload that reports a failure: no 'monitors' entry
FailPayload == [stat |-> "fail", has_monitors |-> FALSE, monitor |-> <<>>]

\* the acknowledgement of a create, edit or delete
AckPayload == [stat |-> "ok", has_monitors |-> FALSE, monitor |-> <<>>]

\* payload of a served getMonitors: a query without hits is answered as a
\* failure without 'monitors' entry (the case main() tests for at line 233)
ListPayload(hits) ==
    IF hits = {} THEN FailPayload
    ELSE [stat |-> "ok", has_monitors |-> TRUE, monitor |-> MonitorList(hits)]

FreeIds(S) == Ids \ RemoteIds(S)

\* newMonitor served: a new monitor, not checked yet
RemoteCreate(S, name, url) ==
    LET id == CHOOSE i \in FreeIds(S) : \A j \in FreeIds(S) : i <= j
    IN  S \cup {[id |-> id, name |-> name, url |-> url, status |-> "1"]}

\* editMonitor served with monitorStatus 1 (resume, the monitor comes up) or 0 (pause)
RemoteEdit(S, id, monitorStatus) ==
    {IF m.id = id
       THEN [m EXCEPT !.status = IF monitorStatus = 1 THEN status_codes.up
                                  ELSE status_codes.paused]
       ELSE m : m \in S}

\* deleteMonitor served
RemoteDelete(S, id) == {m \in S : m.id # id}

-----------------------------------------------------------------------------
(* The decisions of main() and of its helpers, as the code takes them.     *)

\* Python's `not x` for an optional string parameter
Falsy(x) == x = NoStr

\* main(), lines 216-217: at least one of monitorid, monitorname, monitorurl
MissingIdentity(ps) ==
    ps.monitorid = 0 /\ Falsy(ps.monitorname) /\ Falsy(ps.monitorurl)

\* a slip of lines 222-224: the name is preferred to the url
search_term_name_first(monitor_name, monitor_url) ==
    IF ~Falsy(monitor_name) THEN monitor_name ELSE monitor_url

\* main(), lines 222-224: the name, overridden by the url when one is given
search_term(monitor_name, monitor_url) ==
    IF ~Falsy(monitor_url) THEN monitor_url ELSE monitor_name

\* a slip of checkStatus: the transport status is never looked at
checkStatus_always(ans) == TRUE

\* checkStatus: TRUE when the transport status is 200
checkStatus(ans) == ans # "down"

\* a slip of checkResult: the stat is never looked at
checkResult_always(payload) == TRUE

\* checkResult: TRUE when the payload's stat is "ok"
checkResult(payload) == payload.stat = "ok"

\* a slip of lines 235-238: the first of several monitors is taken
Resolve_first(payload) ==
    IF payload.has_monitors /\ Len(payload.monitor) >= 1 THEN "one" ELSE "none"

\* main(), lines 233-238: what the search payload resolves to:
\*   "none" (no 'monitors' entry), "one" (exactly one monitor) or "fail"
Resolve(payload) ==
    IF payload.has_monitors
      THEN IF Len(payload.monitor) = 1 THEN "one" ELSE "fail"
      ELSE "none"

\* a slip of line 264: `and` for `or`
MissingForPresent_both(ps) == Falsy(ps.monitorname) /\ Falsy(ps.monitorurl)

\* main(), line 264: state present needs both the name and the url
MissingForPresent(ps) == Falsy(ps.monitorname) \/ Falsy(ps.monitorurl)

\* a slip of line 267: `if monitor_id` for `if not monitor_id`
MustCreate_inverted(st, id) == st = "present" /\ id # 0

\* a slip of line 267: the test of monitor_id is left out
MustCreate_always(st, id) == st = "present"

\* a slip of line 263: the create is not guarded by the state
MustCreate_anystate(st, id) == id = 0

\* main(), lines 263 and 267: a monitor is created for state present without id
MustCreate(st, id) == st = "present" /\ id = 0

\* newMonitor, lines 158-159: monitorAlertContacts is sent only when given
SendsContacts(ps) == ~Falsy(ps.monitorcontactid)

\* a slip of lines 267-270: the new monitor's id becomes the resolved id
IdAfterCreate_assigned(id, new_id) == new_id

\* main(), lines 267-270: monitor_id after a successful create (it is not assigned)
IdAfterCreate(id, new_id) == id

\* a slip of line 221: the given id is not looked at, the search is always run
HasId_never(id) == FALSE

\* main(), line 272: the confirm-read and the action need a monitor id
HasId(id) == id # 0

\* a slip of lines 272-276: the confirm-read is left out
AfterPresent_noconfirm(id) == IF id # 0 THEN "act" ELSE "exit"

\* main(), line 272: after the present block, the confirm-read when an id is known
AfterPresent(id) == IF HasId(id) THEN "confirm" ELSE "exit"

\* a slip of lines 279 and 283: the current status is not compared
Action_always(st, status) ==
    CASE st = "started" -> "start"
      [] st = "paused"  -> "pause"
      [] st = "absent"  -> "delete"
      [] OTHER          -> "none"

\* a slip of lines 286-288: a paused monitor is not deleted
Action_keep_paused(st, status) ==
    CASE st = "started" -> IF status # status_codes.up THEN "start" ELSE "none"
      [] st = "paused"  -> IF status # status_codes.paused THEN "pause" ELSE "none"
      [] st = "absent"  -> IF status # status_codes.paused THEN "delete" ELSE "none"
      [] OTHER          -> "none"

\* a slip of lines 279 and 283: each state is compared with the other state's code
Action_swapped(st, status) ==
    CASE st = "started" -> IF status = status_codes.paused THEN "start" ELSE "none"
      [] st = "paused"  -> IF status = status_codes.up THEN "pause" ELSE "none"
      [] st = "absent"  -> "delete"
      [] OTHER          -> "none"

\* main(), lines 278-290: the call the requested state asks for
Action(st, status) ==
    CASE st = "started" -> IF status # status_codes.up THEN "start" ELSE "none"
      [] st = "paused"  -> IF status # status_codes.paused THEN "pause" ELSE "none"
      [] st = "absent"  -> "delete"
      [] OTHER          -> "none"

\* a slip of line 285: changed is not set after a pause
ChangedAfter_nopause(action, was) == IF action \in {"none", "pause"} THEN was ELSE TRUE

\* main(), lines 281, 285, 288: changed after the action's call
ChangedAfter(action, was) == IF action = "none" THEN was ELSE TRUE

\* a slip of line 293: a rejected call is issued again
AfterAct_retry(payload) == IF payload.stat = "ok" THEN "exit" ELSE "act"

\* main(), lines 293-295: after the action's call, checkResult decides
AfterAct(payload) == IF checkResult(payload) THEN "exit" ELSE "fail"

\* one logged remote call: the API action, its parameters, and the answer: the
\* transport status, the payload's stat and the number of monitors it lists
Call(op, search, id, monitorStatus, contacts, ans, payload) ==
    [op |-> op, search |-> search, id |-> id, monitorStatus |-> monitorStatus,
     contacts |-> contacts,
     status |-> IF ans = "down" THEN 500 ELSE 200,
     stat |-> IF ans = "down" THEN "" ELSE payload.stat,
     found |-> IF ans = "down" THEN 0 ELSE Len(payload.monitor)]

Mutating(c) == c.op # API_ACTIONS.status

\* the number of mutating calls (newMonitor, editMonitor, deleteMonitor) in a log
RECURSIVE CountMutating(_)
CountMutating(log) ==
    IF log = <<>> THEN 0
    ELSE (IF Mutating(Head(log)) THEN 1 ELSE 0) + CountMutating(Tail(log))

RECURSIVE CountOp(_, _)
CountOp(log, op) ==
    IF log = <<>> THEN 0
    ELSE (IF Head(log).op = op THEN 1 ELSE 0) + CountOp(Tail(log), op)

-----------------------------------------------------------------------------
(* The invocation.                                                         *)

Params ==
    [state : States, monitorid : 0 .. MaxMonitors, monitorname : Names \cup {NoStr},
     monitorurl : Urls \cup {NoStr}, monitorcontactid : {NoStr, "c"}]

NoParams ==
    [state |-> "present", monitorid |-> 0, monitorname |-> NoStr,
     monitorurl |-> NoStr, monitorcontactid |-> NoStr]

NoReport == [kind |-> "none", msg |-> "", changed |-> FALSE]

\* no finished invocation is remembered
NoPrev == [params |-> NoParams, report |-> NoReport, calls |-> <<>>, pre |-> {}]

Idle(p) == pc[p] = "idle"

Init ==
    /\ remote \in RemoteStates
    /\ params = [p \in Procs |-> NoParams]
    /\ pc = [p \in Procs |-> "idle"]
    /\ monitor_id = [p \in Procs |-> 0]
    /\ result = [p \in Procs |-> NoResult]
    /\ changed = [p \in Procs |-> FALSE]
    /\ monitor_status = [p \in Procs |-> ""]
    /\ calls = [p \in Procs |-> <<>>]
    /\ report = [p \in Procs |-> NoReport]
    /\ pre = [p \in Procs |-> {}]
    /\ prev = NoPrev

\* module.fail_json: the invocation ends in failure (no changed is reported)
fail_json(p, msg) ==
    /\ pc' = [pc EXCEPT ![p] = "done"]
    /\ report' = [report EXCEPT ![p] = [kind |-> "fail_json", msg |-> msg, changed |-> FALSE]]

\* an uncaught Python exception ends the invocation in failure
raise(p, msg) ==
    /\ pc' = [pc EXCEPT ![p] = "done"]
    /\ report' = [report EXCEPT ![p] = [kind |-> "exception", msg |-> msg, changed |-> FALSE]]

goto(p, label) ==
    /\ pc' = [pc EXCEPT ![p] = label]
    /\ UNCHANGED report

\* main(), lines 194-214: a new invocation reads its parameters
Begin(p) ==
    /\ \A q \in Procs : Idle(q)
    /\ \E ps \in Params :
         /\ prev = NoPrev \/ ps = prev.params
         /\ params' = [params EXCEPT ![p] = ps]
         /\ monitor_id' = [monitor_id EXCEPT ![p] = ps.monitorid]
    /\ result' = [result EXCEPT ![p] = NoResult]
    /\ changed' = [changed EXCEPT ![p] = FALSE]
    /\ monitor_status' = [monitor_status EXCEPT ![p] = ""]
    /\ calls' = [calls EXCEPT ![p] = <<>>]
    /\ pre' = [pre EXCEPT ![p] = remote]
    /\ goto(p, "args")
    /\ UNCHANGED <<remote, prev>>

\* main(), lines 216-221: the identity check, then the search unless an id is given
CheckArgs(p) ==
    /\ pc[p] = "args"
    /\ IF MissingIdentity(params[p])
         THEN fail_json(p, "at least one of monitorid, monitorname or monitorurl are required")
         ELSE goto(p, IF HasId(monitor_id[p]) THEN "present" ELSE "search")
    /\ UNCHANGED <<remote, params, monitor_id, result, changed, monitor_status,
                   calls, pre, prev>>

\* main(), lines 221-238: checkID with the search term, then the unique match
Search(p) ==
    /\ pc[p] = "search"
    /\ \E ans \in Answers :
         LET term == search_term(params[p].monitorname, params[p].monitorurl)
             payload == IF ans = "serve" THEN ListPayload(SearchHits(remote, term))
                        ELSE FailPayload
         IN  /\ calls' = [calls EXCEPT ![p] =
                            Append(@, Call(API_ACTIONS.status, term, 0, 0, FALSE, ans, payload))]
             /\ IF ~checkStatus(ans)
                  THEN /\ fail_json(p, "failed")
                       /\ UNCHANGED <<result, monitor_id>>
                  ELSE /\ result' = [result EXCEPT ![p] = payload]
                       /\ CASE Resolve(payload) = "one" ->
                                 /\ monitor_id' = [monitor_id EXCEPT ![p] = payload.monitor[1].id]
                                 /\ goto(p, "present")
                            [] Resolve(payload) = "fail" ->
                                 /\ fail_json(p, "unable to uniquely identify monitor")
                                 /\ UNCHANGED monitor_id
                            [] OTHER ->
                                 /\ goto(p, "present")
                                 /\ UNCHANGED monitor_id
    /\ UNCHANGED <<remote, params, changed, monitor_status, pre, prev>>

\* main(), lines 240-270: for state present, the name/url check and the create
Create(p) ==
    /\ pc[p] = "present"
    /\ IF params[p].state = "present" /\ MissingForPresent(params[p])
         THEN /\ fail_json(p, "monitorname and monitorurl are required for state present")
              /\ UNCHANGED <<remote, monitor_id, result, changed, calls>>
         ELSE IF MustCreate(params[p].state, monitor_id[p])
           THEN \E ans \in Answers :
                  LET served == ans = "serve" /\ FreeIds(remote) # {}
                      payload == IF served THEN AckPayload ELSE FailPayload
                      after == IF served
                                 THEN RemoteCreate(remote, params[p].monitorname,
                                                   params[p].monitorurl)
                                 ELSE remote
                      new_id == IF served THEN CHOOSE i \in RemoteIds(after) \ RemoteIds(remote) : TRUE
                                ELSE 0
                  IN  /\ calls' = [calls EXCEPT ![p] =
                                     Append(@, Call(API_ACTIONS.newMonitor, NoStr, 0, 0,
                                                    SendsContacts(params[p]), ans, payload))]
                      /\ IF ~checkStatus(ans)
                           THEN /\ fail_json(p, "failed")
                                /\ UNCHANGED <<remote, monitor_id, result, changed>>
                           ELSE /\ remote' = after
                                /\ result' = [result EXCEPT ![p] = payload]
                                /\ IF ~checkResult(payload)
                                     THEN /\ fail_json(p, "failed")
                                          /\ UNCHANGED <<monitor_id, changed>>
                                     ELSE /\ changed' = [changed EXCEPT ![p] = TRUE]
                                          /\ monitor_id' = [monitor_id EXCEPT ![p] =
                                                              IdAfterCreate(@, new_id)]
                                          /\ goto(p, AfterPresent(monitor_id'[p]))
           ELSE /\ goto(p, AfterPresent(monitor_id[p]))
                /\ UNCHANGED <<remote, monitor_id, result, changed, calls>>
    /\ UNCHANGED <<params, monitor_status, pre, prev>>

\* main(), lines 272-276: confirm the monitor id and read the monitor's status
Confirm(p) ==
    /\ pc[p] = "confirm"
    /\ \E ans \in Answers :
         LET payload == IF ans = "serve" THEN ListPayload(IdHits(remote, monitor_id[p]))
                        ELSE FailPayload
         IN  /\ calls' = [calls EXCEPT ![p] =
                            Append(@, Call(API_ACTIONS.status, NoStr, monitor_id[p], 0,
                                           FALSE, ans, payload))]
             /\ IF ~checkStatus(ans)
                  THEN /\ fail_json(p, "failed")
                       /\ UNCHANGED <<result, monitor_status>>
                  ELSE /\ result' = [result EXCEPT ![p] = payload]
                       /\ IF ~checkResult(payload)
                            THEN /\ fail_json(p, "failed")
                                 /\ UNCHANGED monitor_status
                            ELSE IF payload.has_monitors /\ Len(payload.monitor) > 0
                              THEN /\ monitor_status' = [monitor_status EXCEPT ![p] =
                                                           payload.monitor[1].status]
                                   /\ goto(p, "act")
                              ELSE /\ raise(p, "KeyError or IndexError")
                                   /\ UNCHANGED monitor_status
    /\ UNCHANGED <<remote, params, monitor_id, changed, pre, prev>>

\* main(), lines 278-293: start, pause or delete the monitor, then checkResult
Act(p) ==
    /\ pc[p] = "act"
    /\ LET action == Action(params[p].state, monitor_status[p])
           id == monitor_id[p]
       IN  IF action = "none"
             THEN /\ IF checkResult(result[p]) THEN goto(p, "exit")
                     ELSE fail_json(p, "failed")
                  /\ UNCHANGED <<remote, result, changed, calls>>
             ELSE \E ans \in Answers :
                    LET served == ans = "serve" /\ id \in RemoteIds(remote)
                        payload == IF served THEN AckPayload ELSE FailPayload
                        op == IF action = "delete" THEN API_ACTIONS.deleteMonitor
                              ELSE API_ACTIONS.editMonitor
                        monitorStatus == IF action = "start" THEN 1 ELSE 0
                    IN  /\ calls' = [calls EXCEPT ![p] =
                                       Append(@, Call(op, NoStr, id, monitorStatus, FALSE, ans,
                                                      payload))]
                        /\ IF ~checkStatus(ans)
                             THEN /\ fail_json(p, "failed")
                                  /\ UNCHANGED <<remote, result, changed>>
                             ELSE /\ remote' = IF ~served THEN remote
                                               ELSE IF action = "delete"
                                                 THEN RemoteDelete(remote, id)
                                                 ELSE RemoteEdit(remote, id, monitorStatus)
                                  /\ result' = [result EXCEPT ![p] = payload]
                                  /\ changed' = [changed EXCEPT ![p] = ChangedAfter(action, @)]
                                  /\ CASE AfterAct(payload) = "exit" -> goto(p, "exit")
                                       [] AfterAct(payload) = "fail" -> fail_json(p, "failed")
                                       [] OTHER -> goto(p, AfterAct(payload))
    /\ UNCHANGED <<params, monitor_id, monitor_status, pre, prev>>

\* main(), lines 295-299: exit_json reports success, the last stat and changed
Exit(p) ==
    /\ pc[p] = "exit"
    /\ IF result[p] = NoResult
         THEN raise(p, "TypeError")
         ELSE /\ pc' = [pc EXCEPT ![p] = "done"]
              /\ report' = [report EXCEPT ![p] =
                              [kind |-> "exit_json", msg |-> "success", changed |-> changed[p]]]
    /\ UNCHANGED <<remote, params, monitor_id, result, changed, monitor_status,
                   calls, pre, prev>>

\* the process of the invocation ends and keeps nothing; the caller either goes on
\* to repeat the same spec (and remembers this run) or turns to any other spec
Finish(p) ==
    /\ pc[p] = "done"
    /\ \E again \in BOOLEAN :
         prev' = IF again
                   THEN [params |-> params[p], report |-> report[p], calls |-> calls[p],
                         pre |-> pre[p]]
                   ELSE NoPrev
    /\ pc' = [pc EXCEPT ![p] = "idle"]
    /\ params' = [params EXCEPT ![p] = NoParams]
    /\ monitor_id' = [monitor_id EXCEPT ![p] = 0]
    /\ result' = [result EXCEPT ![p] = NoResult]
    /\ changed' = [changed EXCEPT ![p] = FALSE]
    /\ monitor_status' = [monitor_status EXCEPT ![p] = ""]
    /\ calls' = [calls EXCEPT ![p] = <<>>]
    /\ report' = [report EXCEPT ![p] = NoReport]
    /\ pre' = [pre EXCEPT ![p] = {}]
    /\ UNCHANGED remote

\* the steps of the invocation run by process p
Step(p) ==
    \/ Begin(p)
    \/ CheckArgs(p)
    \/ Search(p)
    \/ Create(p)
    \/ Confirm(p)
    \/ Act(p)
    \/ Exit(p)
    \/ Finish(p)

\* invocations run one after the other: one caller process stands for them all
Caller == "p1"

Next == Step(Caller)

Spec == Init /\ [][Next]_vars

-----------------------------------------------------------------------------
(* How an invocation ended, and what it did.                               *)

Done(p) == pc[p] = "done"

\* exit_json was reached
Succeeded(p) == Done(p) /\ report[p].kind = "exit_json"

\* fail_json or an uncaught exception ended the invocation
Failed(p) == Done(p) /\ report[p].kind \in {"fail_json", "exception"}

\* exit_json reported changed=b
ReportsChanged(p, b) == Succeeded(p) /\ report[p].changed = b

\* the invocation searched by name/url and the search was answered
Searched(p) ==
    /\ calls[p] # <<>>
    /\ calls[p][1].op = API_ACTIONS.status
    /\ calls[p][1].id = 0
    /\ calls[p][1].status = 200

\* the number of monitors the answered search listed
Found(p) == calls[p][1].found

\* the last call of the log
Last(log) == log[Len(log)]

BothGiven(ps) == ps.monitorname # NoStr /\ ps.monitorurl # NoStr

\* the call was answered with transport status 200 and stat ok
CallOk(c) == c.status = 200 /\ c.stat = "ok"

-----------------------------------------------------------------------------
(* C1 *)

C1_case(p) ==
    /\ Done(p)
    /\ params[p].state = "present"
    /\ BothGiven(params[p])
    /\ params[p].monitorid = 0
    /\ Searched(p) /\ Found(p) = 0

\* C1 as claimed: an invocation with state present, name and url, no id, whose
\* search matches no monitor issues exactly one create call and ends in success
\* reporting changed=true.
C1_AsClaimed ==
    \A p \in Procs :
        C1_case(p) =>
            /\ CountOp(calls[p], API_ACTIONS.newMonitor) = 1
            /\ ReportsChanged(p, TRUE)

\* C1 amended: such an invocation issues exactly one create call and no other
\* mutating call; it ends in success reporting changed=true when the create call is
\* answered with transport status 200 and stat ok, and in failure otherwise.
C1_CreateOnce ==
    \A p \in Procs :
        C1_case(p) =>
            /\ CountOp(calls[p], API_ACTIONS.newMonitor) = 1
            /\ CountMutating(calls[p]) = 1
            /\ Last(calls[p]).op = API_ACTIONS.newMonitor
            /\ IF CallOk(Last(calls[p]))
                 THEN /\ ReportsChanged(p, TRUE)
                      /\ Cardinality(remote) = Cardinality(pre[p]) + 1
                 ELSE /\ Failed(p)
                      /\ remote = pre[p]

C1_Witness ==
    \E p \in Procs :
        /\ C1_case(p)
        /\ CallOk(Last(calls[p]))
        /\ ReportsChanged(p, TRUE)
        /\ pre[p] # {}
        /\ \E m \in remote \ pre[p] :
             m.name = params[p].monitorname /\ m.url = params[p].monitorurl

-----------------------------------------------------------------------------
(* C2 *)

C2_case(p) ==
    /\ Done(p)
    /\ params[p].state = "present"
    /\ Searched(p) /\ Found(p) = 1

\* C2 as claimed: an invocation with state present whose search matches exactly
\* one monitor issues no mutating call, leaves the monitors and their statuses
\* unchanged and reports changed=false.
C2_AsClaimed ==
    \A p \in Procs :
        C2_case(p) =>
            /\ CountMutating(calls[p]) = 0
            /\ remote = pre[p]
            /\ ReportsChanged(p, FALSE)

\* C2 amended: such an invocation issues no mutating call and leaves the monitors
\* and their statuses unchanged; it ends in success reporting changed=false when
\* name and url are both given and the confirm-read is answered with transport
\* status 200 and stat ok, and in failure otherwise.
C2_NoMutation ==
    \A p \in Procs :
        C2_case(p) =>
            /\ CountMutating(calls[p]) = 0
            /\ remote = pre[p]
            /\ IF BothGiven(params[p]) /\ Len(calls[p]) = 2 /\ CallOk(calls[p][2])
                 THEN ReportsChanged(p, FALSE)
                 ELSE Failed(p)

C2_Witness ==
    \E p \in Procs :
        /\ C2_case(p)
        /\ ReportsChanged(p, FALSE)
        /\ Len(calls[p]) = 2
        /\ Cardinality(remote) = 2

-----------------------------------------------------------------------------
(* C3 *)

\* C3: an invocation without explicit id whose search lists two or more monitors
\* ends, whatever the requested state, in the failure "unable to uniquely identify
\* monitor" at the search, and has issued no mutating call at any point.
C3_AmbiguousFails ==
    \A p \in Procs :
        (Searched(p) /\ Found(p) >= 2) =>
            /\ Done(p)
            /\ report[p].kind = "fail_json"
            /\ report[p].msg = "unable to uniquely identify monitor"
            /\ Len(calls[p]) = 1
            /\ CountMutating(calls[p]) = 0
            /\ remote = pre[p]

C3_Witness ==
    \E p \in Procs :
        /\ Searched(p) /\ Found(p) >= 2
        /\ params[p].state = "absent"
        /\ Failed(p)

-----------------------------------------------------------------------------
(* C4 *)

\* the monitors a spec identifies: by its id, else by its search term
Target(S, ps) ==
    IF ps.monitorid # 0 THEN IdHits(S, ps.monitorid)
    ELSE SearchHits(S, search_term(ps.monitorname, ps.monitorurl))

\* the status code the requested state compares with
Desired(st) == IF st = "started" THEN status_codes.up ELSE status_codes.paused

AllOk(log) == \A i \in 1 .. Len(log) : CallOk(log[i])

\* the second of two invocations in sequence with the same started/paused spec has
\* ended; the spec identified one monitor, up or paused, when the first began
C4_case(p) ==
    /\ Done(p)
    /\ prev # NoPrev
    /\ params[p].state \in {"started", "paused"}
    /\ Cardinality(Target(prev.pre, params[p])) = 1
    /\ \A m \in Target(prev.pre, params[p]) :
         m.status \in {status_codes.up, status_codes.paused}

C4_runs(p) ==
    LET differs == \E m \in Target(prev.pre, params[p]) :
                      m.status # Desired(params[p].state)
    IN  /\ differs =>
            /\ CountOp(prev.calls, API_ACTIONS.editMonitor) = 1
            /\ CountMutating(prev.calls) = 1
            /\ prev.report.kind = "exit_json" /\ prev.report.changed
        /\ ~differs =>
            /\ CountMutating(prev.calls) = 0
            /\ ~(prev.report.kind = "exit_json" /\ prev.report.changed)
        /\ CountMutating(calls[p]) = 0
        /\ ReportsChanged(p, FALSE)

-----------------------------------------------------------------------------
(* C5 *)

\* C5 as claimed: with state started or paused, no explicit id and a search that
\* finds no monitor, the invocation ends in failure and does not report success.
C5_AsClaimed ==
    \A p \in Procs :
        ( /\ Done(p)
          /\ params[p].state \in {"started", "paused"}
          /\ params[p].monitorid = 0
          /\ Searched(p) /\ Found(p) = 0 )
        => Failed(p)

-----------------------------------------------------------------------------
(* C6 *)

\* a read by monitor id that was answered without any record
EmptyConfirm(c) ==
    c.op = API_ACTIONS.status /\ c.id # 0 /\ c.status = 200 /\ c.found = 0

\* C6: whatever the requested state, once the confirm-read by the resolved id is
\* answered without a record, the invocation has ended in the failure "failed" at
\* that read and has issued no create, edit or delete call.
C6_NotFoundFails ==
    \A p \in Procs :
        (\E i \in 1 .. Len(calls[p]) : EmptyConfirm(calls[p][i])) =>
            /\ EmptyConfirm(Last(calls[p]))
            /\ Done(p)
            /\ report[p].kind = "fail_json" /\ report[p].msg = "failed"
            /\ CountMutating(calls[p]) = 0
            /\ remote = pre[p]

C6_Witness ==
    \E p \in Procs :
        /\ calls[p] # <<>>
        /\ EmptyConfirm(Last(calls[p]))
        /\ params[p].state = "absent"
        /\ params[p].monitorid # 0
        /\ params[p].monitorid \notin RemoteIds(remote)
        /\ remote # {}
        /\ Failed(p)

-----------------------------------------------------------------------------
(* C7 *)

C7_case(p) ==
    /\ params[p].state = "absent"
    /\ params[p].monitorid = 0
    /\ Searched(p) /\ Found(p) = 0

\* C7: an invocation with state absent, no explicit id and a search that finds no
\* monitor issues no mutating call, leaves the monitors unchanged, and ends in
\* success reporting changed=false.
C7_AbsentNoop ==
    \A p \in Procs :
        C7_case(p) =>
            /\ CountMutating(calls[p]) = 0
            /\ Len(calls[p]) = 1
            /\ remote = pre[p]
            /\ pc[p] \in {"present", "exit", "done"}
            /\ Done(p) => ReportsChanged(p, FALSE)

C7_Witness ==
    \E p \in Procs :
        /\ C7_case(p)
        /\ BothGiven(params[p])
        /\ remote # {}
        /\ Target(remote, params[p]) = {}
        /\ ReportsChanged(p, FALSE)

-----------------------------------------------------------------------------
(* C8 *)

\* the desired state of a spec holds of the monitors S
Converged(S, ps) ==
    CASE ps.state = "present" -> Target(S, ps) # {}
      [] ps.state = "absent"  -> Target(S, ps) = {}
      [] OTHER -> /\ Cardinality(Target(S, ps)) = 1
                  /\ \A m \in Target(S, ps) : m.status = Desired(ps.state)

\* C8 as claimed: every invocation that ends in success leaves the desired state
\* holding: present - a monitor the spec identifies exists; started - the monitor
\* is up; paused - the monitor is paused; absent - no such monitor exists.
C8_AsClaimed ==
    \A p \in Procs : Succeeded(p) => Converged(remote, params[p])

-----------------------------------------------------------------------------
(* C9 *)

\* C9: in every invocation that ends in success, the reported changed flag is true
\* if and only if a mutating call was issued during that invocation.
C9_ChangedIffMutated ==
    \A p \in Procs :
        Succeeded(p) => (report[p].changed <=> CountMutating(calls[p]) > 0)

C9_Witness ==
    \E p \in Procs :
        /\ Succeeded(p)
        /\ report[p].changed
        /\ Last(calls[p]).op = API_ACTIONS.editMonitor
        /\ Last(calls[p]).monitorStatus = 0

-----------------------------------------------------------------------------
(* C10 *)

\* C10: at every point of every invocation, whatever the input and the answers of
\* the service, at most one mutating call has been issued.
C10_AtMostOneMutation ==
    \A p \in Procs : CountMutating(calls[p]) <= 1

C10_Witness ==
    \E p \in Procs :
        /\ Done(p)
        /\ CountMutating(calls[p]) = 1
        /\ Last(calls[p]).op = API_ACTIONS.editMonitor
        /\ Last(calls[p]).stat = "fail"
        /\ Len(calls[p]) = 3

-----------------------------------------------------------------------------
(* C11 *)

\* a well-formed answer whose logical status is not ok
LogicalFailure(c) == c.status = 200 /\ c.stat # "ok"

\* C11 as claimed: whenever a remote call (search, confirm-read, create, edit or
\* delete) is answered with a well-formed payload whose stat is not ok, the
\* invocation ends in failure at that call and issues no further remote call.
C11_AsClaimed ==
    \A p \in Procs :
        \A i \in 1 .. Len(calls[p]) :
            LogicalFailure(calls[p][i]) => (i = Len(calls[p]) /\ Failed(p))

-----------------------------------------------------------------------------
(* C12 *)

MsgIdentity == "at least one of monitorid, monitorname or monitorurl are required"

MsgPresent == "monitorname and monitorurl are required for state present"

\* the invocation ended with one of the two input validation failures
ValidationFailure(p) ==
    /\ Done(p)
    /\ report[p].kind = "fail_json"
    /\ report[p].msg \in {MsgIdentity, MsgPresent}

\* C12 as claimed: whenever an invocation ends with an input validation failure,
\* no remote call of any kind has been issued in it.
C12_AsClaimed ==
    \A p \in Procs : ValidationFailure(p) => calls[p] = <<>>

\* C12 amended: an invocation that ends with an input validation failure has issued
\* no mutating call and left the monitors unchanged; it has issued no remote call at
\* all when the identity is missing or an explicit id is given, and exactly the
\* search call (a read) when state present lacks name or url and no id is given.
C12_ValidationReadsOnly ==
    \A p \in Procs :
        ValidationFailure(p) =>
            /\ CountMutating(calls[p]) = 0
            /\ remote = pre[p]
            /\ IF report[p].msg = MsgIdentity \/ params[p].monitorid # 0
                 THEN calls[p] = <<>>
                 ELSE /\ Len(calls[p]) = 1
                      /\ calls[p][1].op = API_ACTIONS.status
                      /\ calls[p][1].id = 0
                      /\ calls[p][1].status = 200

C12_Witness ==
    \E p \in Procs :
        /\ ValidationFailure(p)
        /\ report[p].msg = MsgPresent
        /\ params[p].monitorid = 0
        /\ Len(calls[p]) = 1
        /\ Found(p) = 0

-----------------------------------------------------------------------------
(* C13 *)

\* a finished present request that lacks the name or the url but identifies one
\* existing monitor: by an explicit id, or by a search that listed exactly one
C13_case(p) ==
    /\ Done(p)
    /\ params[p].state = "present"
    /\ ~BothGiven(params[p])
    /\ \/ params[p].monitorid \in RemoteIds(pre[p])
       \/ (Searched(p) /\ Found(p) = 1)

-----------------------------------------------------------------------------
(* C14 *)

\* C14: once a remote call is answered with a transport status other than 200, the
\* invocation has ended in failure at that call: the call is the last of the log
\* (not repeated, nothing issued after it), fail_json "failed" was raised and
\* success is not reported.
C14_TransportFailureEnds ==
    \A p \in Procs :
        \A i \in 1 .. Len(calls[p]) :
            calls[p][i].status # 200 =>
                /\ i = Len(calls[p])
                /\ Done(p)
                /\ report[p].kind = "fail_json" /\ report[p].msg = "failed"
                /\ \A j \in 1 .. i - 1 : calls[p][j].status = 200

C14_Witness ==
    \E p \in Procs :
        /\ Done(p)
        /\ Len(calls[p]) = 3
        /\ calls[p][3].status # 200
        /\ calls[p][3].op = API_ACTIONS.deleteMonitor
        /\ remote = pre[p]

-----------------------------------------------------------------------------
(* C15 *)

\* the i-th call of the log follows directly on a read by the same monitor id that
\* was answered with status 200, stat ok and the monitor's record
ConfirmedBefore(log, i) ==
    /\ i > 1
    /\ log[i - 1].op = API_ACTIONS.status
    /\ log[i - 1].id = log[i].id
    /\ log[i].id # 0
    /\ CallOk(log[i - 1])
    /\ log[i - 1].found = 1

\* C15: every edit (start or pause) and every delete call follows directly, within
\* the same invocation, on a confirm-read by the same monitor id that was answered
\* successfully with the record; also when the id came from a name/url search.
C15_ConfirmBeforeMutate ==
    \A p \in Procs :
        \A i \in 1 .. Len(calls[p]) :
            calls[p][i].op \in {API_ACTIONS.editMonitor, API_ACTIONS.deleteMonitor} =>
                ConfirmedBefore(calls[p], i)

C15_Witness ==
    \E p \in Procs :
        /\ Len(calls[p]) = 3
        /\ Searched(p) /\ Found(p) = 1
        /\ calls[p][3].op = API_ACTIONS.editMonitor
        /\ calls[p][3].monitorStatus = 1
        /\ ConfirmedBefore(calls[p], 3)

-----------------------------------------------------------------------------
(* C16 *)

\* the first call of the invocation is the search by name/url
SearchIssued(p) ==
    /\ calls[p] # <<>>
    /\ calls[p][1].op = API_ACTIONS.status
    /\ calls[p][1].id = 0

\* C16 as claimed: the search is issued with the name as search term whenever a
\* name is supplied, and with the url only when no name is supplied.
C16_AsClaimed ==
    \A p \in Procs :
        SearchIssued(p) =>
            calls[p][1].search = IF params[p].monitorname # NoStr
                                   THEN params[p].monitorname
                                   ELSE params[p].monitorurl

\* C16 amended: when no explicit id is supplied, the search is issued with the url
\* as search term whenever a url is supplied, and with the name only when no url
\* is supplied; with an explicit id no search is issued.
C16_UrlFirst ==
    \A p \in Procs :
        /\ SearchIssued(p) =>
              /\ params[p].monitorid = 0
              /\ params[p].monitorurl # NoStr => calls[p][1].search = params[p].monitorurl
              /\ params[p].monitorurl = NoStr => calls[p][1].search = params[p].monitorname
              /\ calls[p][1].search # NoStr
        /\ (params[p].monitorid = 0 /\ pc[p] \in {"present", "confirm", "act", "exit"})
              => SearchIssued(p)

C16_Witness ==
    \E p \in Procs :
        /\ SearchIssued(p)
        /\ BothGiven(params[p])
        /\ calls[p][1].search = params[p].monitorurl
        /\ calls[p][1].found = 1
        /\ Cardinality(SearchHits(pre[p], params[p].monitorname)) = 2

-----------------------------------------------------------------------------
(* C17 *)

\* a read by monitor id
IsConfirm(c) == c.op = API_ACTIONS.status /\ c.id # 0

\* a read by search term
IsSearch(c) == c.op = API_ACTIONS.status /\ c.id = 0

RECURSIVE CountConfirm(_)
CountConfirm(log) ==
    IF log = <<>> THEN 0
    ELSE (IF IsConfirm(Head(log)) THEN 1 ELSE 0) + CountConfirm(Tail(log))

\* an invocation that issued a create issued no confirm-read
CreateWithoutConfirm(log) ==
    CountOp(log, API_ACTIONS.newMonitor) > 0 => CountConfirm(log) = 0

\* C17 as claimed: every invocation issues at most 2 remote calls in total, and an
\* invocation that creates a monitor issues no confirm-read.
C17_AsClaimed ==
    \A p \in Procs : Len(calls[p]) <= 2 /\ CreateWithoutConfirm(calls[p])

\* C17 amended: every invocation issues at most 3 remote calls: at most one search
\* (only without explicit id), at most one confirm-read and at most one mutating
\* write, in that order; with an explicit id at most 2 calls; an invocation that
\* creates a monitor issues the search and the create only, and no confirm-read.
C17_AtMostThreeCalls ==
    \A p \in Procs :
        /\ Len(calls[p]) <= 3
        /\ params[p].monitorid # 0 => (Len(calls[p]) <= 2 /\ \A i \in 1 .. Len(calls[p]) : ~IsSearch(calls[p][i]))
        /\ \A i \in 1 .. Len(calls[p]) :
              /\ IsSearch(calls[p][i]) => i = 1
              /\ IsConfirm(calls[p][i]) => i = Len(calls[p]) \/ Mutating(calls[p][i + 1])
              /\ Mutating(calls[p][i]) => i = Len(calls[p])
        /\ CountConfirm(calls[p]) <= 1
        /\ CreateWithoutConfirm(calls[p])
        /\ CountOp(calls[p], API_ACTIONS.newMonitor) > 0 =>
              (Len(calls[p]) = 2 /\ IsSearch(calls[p][1]))

C17_Witness ==
    \E p \in Procs :
        /\ Succeeded(p)
        /\ Len(calls[p]) = 3
        /\ IsSearch(calls[p][1]) /\ IsConfirm(calls[p][2])
        /\ calls[p][3].op = API_ACTIONS.editMonitor
        /\ params[p].state = "paused"

-----------------------------------------------------------------------------
(* C18 *)

\* a finished absent invocation whose confirm-read by the resolved id was answered
\* successfully with the record
C18_case(p) ==
    /\ Done(p)
    /\ params[p].state = "absent"
    /\ \E i \in 1 .. Len(calls[p]) :
          IsConfirm(calls[p][i]) /\ CallOk(calls[p][i]) /\ calls[p][i].found = 1

\* the absent invocation is the second of two in sequence with the same spec, by
\* name/url, and the first one deleted the monitor
C18_again(p) ==
    /\ Done(p)
    /\ prev # NoPrev
    /\ params[p].state = "absent"
    /\ params[p].monitorid = 0
    /\ prev.report.kind = "exit_json" /\ prev.report.changed

\* C18 as claimed: for state absent with a resolved id whose confirm-read succeeds,
\* exactly one delete call for that id is issued whatever the monitor's status, the
\* invocation reports changed=true and the monitor no longer exists; a following
\* absent invocation by the same name/url issues no mutating call and reports
\* changed=false.
C18_AsClaimed ==
    \A p \in Procs :
        /\ C18_case(p) =>
              /\ CountOp(calls[p], API_ACTIONS.deleteMonitor) = 1
              /\ Last(calls[p]).id = monitor_id[p]
              /\ ReportsChanged(p, TRUE)
              /\ monitor_id[p] \notin RemoteIds(remote)
        /\ C18_again(p) =>
              /\ CountMutating(calls[p]) = 0
              /\ ReportsChanged(p, FALSE)

\* C18 amended: such an invocation issues exactly one delete call for that id, and
\* no other mutating call, whatever the monitor's status; when the delete is
\* answered with transport status 200 and stat ok it reports changed=true and the
\* monitor no longer exists, otherwise it ends in failure with the monitors
\* unchanged. A following absent invocation by the same name/url issues no
\* mutating call, and reports changed=false when its search is answered with
\* transport status 200.
C18_DeleteOnce ==
    \A p \in Procs :
        /\ C18_case(p) =>
              /\ CountOp(calls[p], API_ACTIONS.deleteMonitor) = 1
              /\ CountMutating(calls[p]) = 1
              /\ Last(calls[p]).op = API_ACTIONS.deleteMonitor
              /\ Last(calls[p]).id = monitor_id[p]
              /\ IF CallOk(Last(calls[p]))
                   THEN /\ ReportsChanged(p, TRUE)
                        /\ monitor_id[p] \notin RemoteIds(remote)
                        /\ remote = RemoteDelete(pre[p], monitor_id[p])
                   ELSE /\ Failed(p)
                        /\ remote = pre[p]
        /\ C18_again(p) =>
              /\ CountMutating(calls[p]) = 0
              /\ remote = pre[p]
              /\ IF calls[p][1].status = 200 THEN ReportsChanged(p, FALSE) ELSE Failed(p)

C18_Witness ==
    \E p \in Procs :
        /\ C18_again(p)
        /\ ReportsChanged(p, FALSE)
        /\ Last(prev.calls).op = API_ACTIONS.deleteMonitor
        /\ \E m \in prev.pre \ remote : m.status \notin {status_codes.up, status_codes.paused}
        /\ remote # {}

-----------------------------------------------------------------------------
(* C19 *)

\* between two invocations the service's own checks move the runtime status of a
\* monitor that is not paused between its non-paused values; the module reads it
\* at line 276
Drift ==
    /\ \A q \in Procs : Idle(q)
    /\ \E m \in remote :
         /\ m.status # status_codes.paused
         /\ \E s \in Statuses \ {status_codes.paused, m.status} :
              remote' = (remote \ {m}) \cup {[m EXCEPT !.status = s]}
    /\ UNCHANGED <<params, pc, monitor_id, result, changed, monitor_status, calls,
                   report, pre, prev>>

NextDrift == Next \/ Drift

\* invocations one after the other against a service whose checks go on
SpecDrift == Init /\ [][NextDrift]_vars

\* the monitorStatus a state asks for in its edit call (lines 280 and 284)
EditFor(st) == IF st = "started" THEN 1 ELSE 0

\* a finished started or paused invocation whose confirm-read succeeded and read
\* a status that is neither up nor paused
C19_case(p) ==
    /\ Done(p)
    /\ params[p].state \in {"started", "paused"}
    /\ \E i \in 1 .. Len(calls[p]) :
          IsConfirm(calls[p][i]) /\ CallOk(calls[p][i]) /\ calls[p][i].found = 1
    /\ monitor_status[p] \notin {status_codes.up, status_codes.paused}

\* C19 as claimed: for an existing monitor whose status is neither up nor paused,
\* started issues exactly one start edit and paused exactly one pause edit, each
\* reporting changed=true, also on every repetition while the status stays so.
C19_AsClaimed ==
    \A p \in Procs :
        C19_case(p) =>
            /\ CountOp(calls[p], API_ACTIONS.editMonitor) = 1
            /\ Last(calls[p]).monitorStatus = EditFor(params[p].state)
            /\ ReportsChanged(p, TRUE)

\* C19 amended: for an existing monitor whose status, as read by the confirm-read,
\* is neither up nor paused, started issues exactly one start edit and paused
\* exactly one pause edit for that id and no other mutating call; the invocation
\* reports changed=true when the edit is answered with transport status 200 and
\* stat ok, and ends in failure otherwise. This holds the same for a repeated
\* invocation that again reads such a status after an earlier edit succeeded.
C19_EditOnOtherStatus ==
    \A p \in Procs :
        C19_case(p) =>
            /\ CountOp(calls[p], API_ACTIONS.editMonitor) = 1
            /\ CountMutating(calls[p]) = 1
            /\ Last(calls[p]).op = API_ACTIONS.editMonitor
            /\ Last(calls[p]).id = monitor_id[p]
            /\ Last(calls[p]).monitorStatus = EditFor(params[p].state)
            /\ IF CallOk(Last(calls[p])) THEN ReportsChanged(p, TRUE) ELSE Failed(p)

\* a repeated started invocation edits again and reports changed=true, after the
\* first one's start edit succeeded and the status went back to not-checked-yet
C19_Witness ==
    \E p \in Procs :
        /\ C19_case(p)
        /\ params[p].state = "started"
        /\ ReportsChanged(p, TRUE)
        /\ prev # NoPrev
        /\ prev.report.kind = "exit_json" /\ prev.report.changed
        /\ Last(prev.calls).op = API_ACTIONS.editMonitor
        /\ Last(prev.calls).monitorStatus = 1
        /\ Last(prev.calls).id = monitor_id[p]

-----------------------------------------------------------------------------
(* C20 *)

\* the specs of two invocations asking for present with the same name and url
SameSpecs ==
    {ps \in Params : ps.state = "present" /\ BothGiven(ps) /\ ps.monitorid = 0
                     /\ ps.monitorcontactid = NoStr}

\* two callers have started an invocation each, with the same spec, against the
\* same service; neither has made a call yet
InitConc ==
    /\ remote \in RemoteStates
    /\ \E ps \in SameSpecs : params = [p \in Procs |-> ps]
    /\ pc = [p \in Procs |-> "args"]
    /\ monitor_id = [p \in Procs |-> 0]
    /\ result = [p \in Procs |-> NoResult]
    /\ changed = [p \in Procs |-> FALSE]
    /\ monitor_status = [p \in Procs |-> ""]
    /\ calls = [p \in Procs |-> <<>>]
    /\ report = [p \in Procs |-> NoReport]
    /\ pre = [p \in Procs |-> remote]
    /\ prev = NoPrev

\* the steps of the two invocations interleave freely, one remote call at a time
NextConc ==
    \E p \in Procs :
        \/ CheckArgs(p)
        \/ Search(p)
        \/ Create(p)
        \/ Confirm(p)
        \/ Act(p)
        \/ Exit(p)

SpecConc == InitConc /\ [][NextConc]_vars

\* the monitors the invocation's name/url search matches
Matching(S, p) == SearchHits(S, search_term(params[p].monitorname, params[p].monitorurl))

\* the invocation's create call was acknowledged
Created(p) ==
    \E i \in 1 .. Len(calls[p]) :
        calls[p][i].op = API_ACTIONS.newMonitor /\ CallOk(calls[p][i])

\* both invocations are over, and no monitor matched when they started
C20_case ==
    /\ \A p \in Procs : Done(p)
    /\ \A p \in Procs : Matching(pre[p], p) = {}

\* C20 as claimed: whatever the interleaving of two present invocations with the
\* same name and url that start with no matching monitor, at most one matching
\* monitor exists after both complete.
C20_AsClaimed ==
    C20_case => \A p \in Procs : Cardinality(Matching(remote, p)) <= 1

\* C20 amended: after both complete there is one matching monitor for each create
\* call that was acknowledged, so at most two; an invocation whose search listed
\* the monitor the other one created issues no create call, and two matching
\* monitors exist only when neither invocation's search listed a monitor.
C20_OnePerCreate ==
    C20_case =>
        \A p \in Procs :
            /\ Cardinality(Matching(remote, p)) = Cardinality({q \in Procs : Created(q)})
            /\ Cardinality(Matching(remote, p)) <= 2
            /\ (Searched(p) /\ Found(p) = 1) =>
                  CountOp(calls[p], API_ACTIONS.newMonitor) = 0
            /\ Cardinality(Matching(remote, p)) = 2 =>
                  \A q \in Procs : Searched(q) /\ Found(q) = 0

\* both invocations searched before either created: both report changed=true and
\* two matching monitors exist
C20_Witness ==
    /\ C20_case
    /\ \A p \in Procs : ReportsChanged(p, TRUE) /\ Len(calls[p]) = 2
    /\ \A p \in Procs : Cardinality(Matching(remote, p)) = 2

\* one invocation created the monitor before the other searched: the second one
\* finds it and creates nothing
C20_WitnessFound ==
    /\ C20_case
    /\ \E p \in Procs : Searched(p) /\ Found(p) = 1 /\ Succeeded(p)
    /\ \E p \in Procs : Created(p)

====
